---- MODULE Spec2Model ----
(***************************************************************************)
(* Model of src/home_page.py: the chart builders (create_hist_numbers,     *)
(* create_hist_categories, create_map, create_progression,                 *)
(* create_progression_countries, create_scatter_ratings) and the grid      *)
(* renderers (create_persons, create_films) of the streamlit home page.    *)
(*                                                                         *)
(* A table (pandas DataFrame) is a sequence of rows, each row a function   *)
(* from column names to values.  A python string is a sequence of tokens   *)
(* (single characters where the code looks inside the string, whole        *)
(* literals otherwise); the empty string is the empty sequence.            *)
(***************************************************************************)
EXTENDS Integers, Sequences, FiniteSets, TLC

VARIABLES
    csv,            \* the flat files under csv/, by base name
    df_films,       \* st.session_state["df_films"], the watched-films table
    session_state,  \* the other keys of st.session_state
    page,           \* the page the app shows
    pressed,        \* the button whose click started this run (NoButton: none)
    pc,             \* position of the running create_home
    df_countries, countries_not_watched, df_genres, df_actors, df_directors,
                    \* locals of create_home
    df_arg,         \* the table argument of the last chart routine called
    plural,         \* local of the last create_hist_categories call
    watched, not_watched,
                    \* locals of the last create_progression* call
    fig,            \* what the last chart routine handed to st.plotly_chart
    called,         \* name of the last routine that ran ("" before any)
    cell,           \* index i + j of the grid cell being rendered
    person,         \* local of create_persons: the object of the last cell
    constructed     \* per identifier, how many times Person(id) was called

vars == <<csv, df_films, session_state, page, pressed, pc, df_countries,
          countries_not_watched, df_genres, df_actors, df_directors, df_arg,
          plural, watched, not_watched, fig, called, cell, person, constructed>>

\* everything but pc, fig, called and the locals a chart routine sets
session_vars == <<csv, df_films, session_state, page, pressed, constructed>>
home_locals == <<df_countries, countries_not_watched, df_genres, df_actors,
                 df_directors>>
grid_vars == <<cell, person>>

----------------------------------------------------------------------------
(* Bounds of the model *)

MaxFilms == 6       \* rows of the films table

----------------------------------------------------------------------------
(* pandas / python helpers *)

\* A missing value (float NaN) of a numeric column.
NaN == -1

\* Series.head(5) / list[:5]
HeadN == 5

Min(a, b) == IF a <= b THEN a ELSE b

\* s.head(n), s[:n]
Head5All(s) == s

Head5(s) == SubSeq(s, 1, Min(HeadN, Len(s)))

\* str(n) for a non-negative integer: its decimal digits
Digit == <<"0", "1", "2", "3", "4", "5", "6", "7", "8", "9">>

RECURSIVE Str(_)
Str(n) == IF n < 10 THEN <<Digit[n + 1]>>
          ELSE Str(n \div 10) \o <<Digit[(n % 10) + 1]>>

\* "<br>".join(items), items a sequence of strings
RECURSIVE JoinBr(_)
JoinBr(items) ==
    IF Len(items) = 0 THEN <<>>
    ELSE IF Len(items) = 1 THEN items[1]
    ELSE items[1] \o <<"<br>">> \o JoinBr(Tail(items))

\* python's  a or b  on strings: a unless a is the empty string
PyOr(a, b) == IF a # <<>> THEN a ELSE b

\* value.title() for the column names create_home passes
TitleCase(name) ==
    CASE name = "year" -> "Year"
      [] name = "duration" -> "Duration"
      [] name = "spectator rating" -> "Spectator Rating"
      [] name = "press rating" -> "Press Rating"
      [] name = "genre" -> "Genre"
      [] name = "country" -> "Country"

\* "rating" in value
HasRating(name) == name \in {"spectator rating", "press rating"}

\* df[col] == val  (a NaN equals nothing, itself included)
PdEq(a, b) == a # NaN /\ b # NaN /\ a = b

\* the rows of df selected by a boolean mask, in table order
RECURSIVE Filter(_, _)
Filter(rows, mask) ==
    IF Len(rows) = 0 THEN <<>>
    ELSE (IF mask[1] THEN <<rows[1]>> ELSE <<>>)
         \o Filter(Tail(rows), Tail(mask))

\* df[col] as a sequence
Column(rows, col) == [i \in 1..Len(rows) |-> rows[i][col]]

----------------------------------------------------------------------------
(* DataFrame.groupby(keys).size().reset_index(name="number") *)

\* the key of a row: the values of its key columns
KeyOf(row, keys) == [j \in 1..Len(keys) |-> row[keys[j]]]

\* groupby's default dropna=True: a row with a NaN in a key column is in no group
KeyPresent(row, keys) == \A j \in 1..Len(keys) : row[keys[j]] # NaN

GroupKeys(rows, keys) ==
    {KeyOf(rows[i], keys) : i \in {i \in 1..Len(rows) : KeyPresent(rows[i], keys)}}

\* lexicographic order of keys (groupby's default sort=True)
RECURSIVE KeyLess(_, _)
KeyLess(a, b) ==
    IF Len(a) = 0 THEN FALSE
    ELSE a[1] < b[1] \/ (a[1] = b[1] /\ KeyLess(Tail(a), Tail(b)))

RECURSIVE SortKeys(_)
SortKeys(S) ==
    IF S = {} THEN <<>>
    ELSE LET m == CHOOSE k \in S : \A o \in S \ {k} : KeyLess(k, o)
         IN  <<m>> \o SortKeys(S \ {m})

\* size of the group of key k
GroupSizeOffByOne(rows, keys, k) ==
    Cardinality({i \in 1..Len(rows) : KeyOf(rows[i], keys) = k}) + 1

GroupSize(rows, keys, k) ==
    Cardinality({i \in 1..Len(rows) : KeyOf(rows[i], keys) = k})

\* one row per group: the key columns and the column "number"
GroupBySizeDropLast(rows, keys) ==
    LET all == SortKeys(GroupKeys(rows, keys))
        ks == SubSeq(all, 1, Len(all) - 1)
    IN  [g \in 1..Len(ks) |->
            [c \in {keys[j] : j \in 1..Len(keys)} \cup {"number"} |->
                IF c = "number" THEN GroupSize(rows, keys, ks[g])
                ELSE ks[g][CHOOSE j \in 1..Len(keys) : keys[j] = c]]]

GroupBySize(rows, keys) ==
    LET ks == SortKeys(GroupKeys(rows, keys))
    IN  [g \in 1..Len(ks) |->
            [c \in {keys[j] : j \in 1..Len(keys)} \cup {"number"} |->
                IF c = "number" THEN GroupSize(rows, keys, ks[g])
                ELSE ks[g][CHOOSE j \in 1..Len(keys) : keys[j] = c]]]

\* df[value].mean(): NaN are skipped; kept exact as <<sum, count>>
RECURSIVE SumSeq(_)
SumSeq(s) == IF Len(s) = 0 THEN 0 ELSE s[1] + SumSeq(Tail(s))

Mean(rows, col) ==
    LET present == SelectSeq(Column(rows, col), LAMBDA v : v # NaN)
    IN  <<SumSeq(present), Len(present)>>

----------------------------------------------------------------------------
(* python strings the code looks inside, spelled as character sequences *)

Spell(word) ==
    CASE word = "genre"     -> <<"g", "e", "n", "r", "e">>
      [] word = "genres"    -> <<"g", "e", "n", "r", "e", "s">>
      [] word = "country"   -> <<"c", "o", "u", "n", "t", "r", "y">>
      [] word = "countrys"  -> <<"c", "o", "u", "n", "t", "r", "y", "s">>
      [] word = "countries" -> <<"c", "o", "u", "n", "t", "r", "i", "e", "s">>
      [] word = "Césars"    -> <<"C", "é", "s", "a", "r", "s">>
      [] word = "césars"    -> <<"c", "é", "s", "a", "r", "s">>
      [] word = "cesars"    -> <<"c", "e", "s", "a", "r", "s">>
      [] word = "Oscars"    -> <<"O", "s", "c", "a", "r", "s">>
      [] word = "oscars"    -> <<"o", "s", "c", "a", "r", "s">>
      [] word = "Palmes"    -> <<"P", "a", "l", "m", "e", "s">>
      [] word = "palmes"    -> <<"p", "a", "l", "m", "e", "s">>

Words == {"genre", "genres", "country", "countrys", "countries", "Césars",
          "césars", "cesars", "Oscars", "oscars", "Palmes", "palmes"}

\* the word a character sequence spells ("?" when it is none of Words)
Unspell(chars) ==
    IF \E w \in Words : Spell(w) = chars
    THEN CHOOSE w \in Words : Spell(w) = chars
    ELSE "?"

\* str.lower()
LowerChar(c) ==
    CASE c = "C" -> "c" [] c = "O" -> "o" [] c = "P" -> "p" [] OTHER -> c

Lower(chars) == [i \in 1..Len(chars) |-> LowerChar(chars[i])]

\* str.replace(old, new) for one-character old and new
Replace(chars, old, new) ==
    [i \in 1..Len(chars) |-> IF chars[i] = old THEN new ELSE chars[i]]

\* pat in text: pat occurs in text as a substring
Contains(text, pat) ==
    \E i \in 0..(Len(text) - Len(pat)) : SubSeq(text, i + 1, i + Len(pat)) = pat

\* Series.isin(values)
IsIn(v, values) == \E i \in 1..Len(values) : values[i] = v

----------------------------------------------------------------------------
(* create_hist_numbers *)

NoFig == [kind |-> "none", data |-> <<>>, x |-> "", title |-> <<>>,
          height |-> 0, vline |-> <<>>, xrange |-> <<>>]

\* the hover text of the group of value val
HistHoverText(rows, df_count, col, val) ==
    <<TitleCase(col), ": ">> \o Str(val) \o <<"<br>", "Films: ">>
    \o Str(Filter(df_count,
                  [i \in 1..Len(df_count) |-> PdEq(df_count[i][col], val)])[1]["number"])
    \o <<"<br>">>
    \o JoinBr(Head5(Column(
           Filter(rows, [i \in 1..Len(rows) |-> PdEq(rows[i][col], val)]),
           "title")))

HistNumbersFig(rows, col, mean, hist_title) ==
    LET df_count == GroupBySize(rows, <<col>>)
        with_hover == [g \in 1..Len(df_count) |->
            df_count[g] @@ ("hover_text" :>
                HistHoverText(rows, df_count, col, df_count[g][col]))]
    IN  [kind   |-> "bar",
         data   |-> with_hover,
         x      |-> col,
         title  |-> PyOr(hist_title, <<"Films by ", col>>),
         height |-> IF HasRating(col) THEN 400 ELSE 500,
         vline  |-> IF mean THEN Mean(rows, col) ELSE <<>>,
         xrange |-> IF HasRating(col) THEN <<0, 5>> ELSE <<>>]

\* the calls of create_hist_numbers in create_home, by position
HistSteps == {"hist_year", "hist_duration", "hist_spectator", "hist_press",
              "hist_nopress"}

\* df_films[df_films["press rating"].isna()]
WithoutPressRating(rows) ==
    Filter(rows, [i \in 1..Len(rows) |-> rows[i]["press rating"] = NaN])

HistArgs(step) ==
    CASE step = "hist_year" ->
            [df |-> df_films, value |-> "year", mean |-> FALSE, hist_title |-> <<>>]
      [] step = "hist_duration" ->
            [df |-> df_films, value |-> "duration", mean |-> TRUE, hist_title |-> <<>>]
      [] step = "hist_spectator" ->
            [df |-> df_films, value |-> "spectator rating", mean |-> TRUE,
             hist_title |-> <<>>]
      [] step = "hist_press" ->
            [df |-> df_films, value |-> "press rating", mean |-> TRUE,
             hist_title |-> <<>>]
      [] step = "hist_nopress" ->
            [df |-> WithoutPressRating(df_films), value |-> "spectator rating",
             mean |-> TRUE,
             hist_title |-> <<"Films without press rating by spectator rating">>]

----------------------------------------------------------------------------
(* create_scatter_ratings *)

ScatterFig(rows) ==
    [kind   |-> "scatter",
     data   |-> GroupBySize(rows, <<"press rating", "spectator rating">>),
     x      |-> "press rating",
     title  |-> <<"Spectator ratings in function of press ratings">>,
     height |-> 400,
     vline  |-> <<>>,
     xrange |-> <<0, 5>>]

----------------------------------------------------------------------------
(* create_hist_categories *)

\* the English plural of the singular category word
PluralAppendS(chars) == chars \o <<"s">>

Plural(chars) ==
    IF chars[Len(chars)] # "y" THEN chars \o <<"s">>
    ELSE SubSeq(chars, 1, Len(chars) - 1) \o <<"i", "e", "s">>

\* str(row[id_]): the decimal digits of a genre id, the name of a country
StrKey(id_, v) == IF id_ = "id" THEN Str(v) ELSE v

\* df_films[plural].str.contains(str(row[id_])), for keys without regular
\* expression metacharacters
MembershipMaskExact(rows, col, key) ==
    [i \in 1..Len(rows) |-> rows[i][col] = key]

MembershipMask(rows, col, key) ==
    [i \in 1..Len(rows) |-> Contains(rows[i][col], key)]

CategoryHoverText(row, categories, rows, col, id_) ==
    <<TitleCase(categories), ": ">> \o row[categories] \o <<"<br>", "Films: ">>
    \o Str(row["number"]) \o <<"<br>">>
    \o JoinBr(Head5(Column(
           Filter(rows, MembershipMask(rows, col, StrKey(id_, row[id_]))),
           "title")))

\* df_categories after  df_categories["hover_text"] = df_categories.apply(...)
WithHoverTextCopy(df, categories, rows, col, id_) == df

WithHoverText(df, categories, rows, col, id_) ==
    [columns |-> df.columns \cup {"hover_text"},
     rows    |-> [r \in 1..Len(df.rows) |->
                    [c \in df.columns \cup {"hover_text"} |->
                        IF c = "hover_text"
                        THEN CategoryHoverText(df.rows[r], categories, rows, col, id_)
                        ELSE df.rows[r][c]]]]

CategoriesFig(df, categories) ==
    [kind   |-> "bar",
     data   |-> df.rows,
     x      |-> categories,
     title  |-> <<"Films by ", categories>>,
     height |-> 500,
     vline  |-> <<>>,
     xrange |-> <<>>]

FilmColumns == {"id", "title", "year", "duration", "press rating",
                "spectator rating", "poster", "genres", "countries"}

----------------------------------------------------------------------------
(* create_map *)

MapFig(df) ==
    [kind   |-> "choropleth",
     data   |-> df.rows,
     x      |-> "country_en",
     title  |-> <<"Films by country">>,
     height |-> 500,
     vline  |-> <<>>,
     xrange |-> <<>>]

----------------------------------------------------------------------------
(* create_progression, create_progression_countries *)

\* f"csv/{award.lower().replace("é", "e")}.csv", without "csv/" and ".csv"
AwardFile(award) == Unspell(Replace(Lower(Spell(award)), "é", "e"))

\* df_award[df_award["id"].isin(df_films["id"])]["title"].tolist()
WatchedAll(df_award, rows) == Column(df_award, "title")

Watched(df_award, rows) ==
    Column(Filter(df_award,
                  [i \in 1..Len(df_award) |->
                      IsIn(df_award[i]["id"], Column(rows, "id"))]),
           "title")

\* df_award[~df_award["id"].isin(df_films["id"])]["title"].tolist()
NotWatched(df_award, rows) ==
    Column(Filter(df_award,
                  [i \in 1..Len(df_award) |->
                      ~IsIn(df_award[i]["id"], Column(rows, "id"))]),
           "title")

\* f"Number: {len(lst)}<br>" + "<br>".join(map(str, lst[:5])) or "None":
\* + binds tighter than or
SliceTextOrFirst(lst) ==
    <<"Number: ">> \o Str(Len(lst)) \o <<"<br>">>
    \o PyOr(JoinBr(Head5(lst)), <<"None">>)

SliceText(lst) ==
    PyOr(<<"Number: ">> \o Str(Len(lst)) \o <<"<br>">> \o JoinBr(Head5(lst)),
         <<"None">>)

PieFig(w, nw, pie_title) ==
    [kind   |-> "pie",
     data   |-> << [category |-> "Watched", number |-> Len(w),
                    hover_text |-> SliceText(w)],
                   [category |-> "Not watched", number |-> Len(nw),
                    hover_text |-> SliceText(nw)] >>,
     x      |-> "category",
     title  |-> pie_title,
     height |-> 0,
     vline  |-> <<>>,
     xrange |-> <<>>]

ProgressionSteps == {"prog_cesars", "prog_oscars", "prog_palmes"}

ProgressionArgs(step) ==
    CASE step = "prog_cesars" ->
            [award |-> "Césars", title |-> <<"Watched César Awards for Best Film">>]
      [] step = "prog_oscars" ->
            [award |-> "Oscars", title |-> <<"Watched Oscar Awards for Best Film">>]
      [] step = "prog_palmes" ->
            [award |-> "Palmes", title |-> <<"Watched Palmes d'Or">>]

----------------------------------------------------------------------------
(* create_home: the order of its steps *)

StepOrder == <<"load", "hist_year", "hist_genre", "hist_country", "map",
               "hist_duration", "prog_cesars", "prog_oscars", "prog_palmes",
               "prog_countries", "hist_spectator", "hist_press", "hist_nopress",
               "scatter", "directors", "actors", "films", "done">>

NextStep(step) ==
    StepOrder[(CHOOSE i \in 1..Len(StepOrder) : StepOrder[i] = step) + 1]

\* an uncaught exception ends the run
Raise(error) ==
    /\ pc' = "raised"
    /\ called' = error

\* pd.read_csv(...).sort_values("number", ascending=False): the rows by
\* decreasing number; rows of equal number come in an order the sort
\* algorithm chooses
SortedByNumber(rows) ==
    { [i \in 1..Len(rows) |-> rows[perm[i]]] :
        perm \in { q \in [1..Len(rows) -> 1..Len(rows)] :
                    /\ \A i, j \in 1..Len(rows) : i # j => q[i] # q[j]
                    /\ \A i, j \in 1..Len(rows) :
                          i < j => rows[q[i]]["number"] >= rows[q[j]]["number"] } }

NonZero(rows) == Filter(rows, [i \in 1..Len(rows) |-> rows[i]["number"] # 0])

create_home_load ==
    /\ pc = "load"
    /\ page = "home.py"
    /\ \E c \in SortedByNumber(csv["countries"]), g \in SortedByNumber(csv["genres"]),
          a \in SortedByNumber(csv["actors"]), d \in SortedByNumber(csv["directors"]) :
          /\ countries_not_watched' =
                Column(Filter(c, [i \in 1..Len(c) |-> c[i]["number"] = 0]), "country")
          /\ df_countries' = [columns |-> {"country", "country_en", "number"},
                              rows |-> NonZero(c)]
          /\ df_genres' = [columns |-> {"genre", "id", "number"}, rows |-> NonZero(g)]
          /\ df_actors' = a
          /\ df_directors' = d
    /\ pc' = NextStep(pc)
    /\ called' = "create_home"
    /\ UNCHANGED <<session_vars, grid_vars, df_arg, plural, watched, not_watched, fig>>

create_hist_numbers ==
    /\ pc \in HistSteps
    /\ LET args == HistArgs(pc)
       IN  /\ fig' = HistNumbersFig(args.df, args.value, args.mean, args.hist_title)
           /\ df_arg' = args.df
    /\ called' = "create_hist_numbers"
    /\ pc' = NextStep(pc)
    /\ UNCHANGED <<session_vars, home_locals, grid_vars, plural, watched, not_watched>>

create_scatter_ratings ==
    /\ pc = "scatter"
    /\ fig' = ScatterFig(df_films)
    /\ df_arg' = df_films
    /\ called' = "create_scatter_ratings"
    /\ pc' = NextStep(pc)
    /\ UNCHANGED <<session_vars, home_locals, grid_vars, plural, watched, not_watched>>

\* create_hist_categories(df_genres, "genre", df_films, "id") and
\* create_hist_categories(df_countries, "country", df_films, "country")
create_hist_categories ==
    /\ pc \in {"hist_genre", "hist_country"}
    /\ LET df == IF pc = "hist_genre" THEN df_genres ELSE df_countries
           categories == IF pc = "hist_genre" THEN "genre" ELSE "country"
           id_ == IF pc = "hist_genre" THEN "id" ELSE "country"
           pl == Unspell(Plural(Spell(categories)))
       IN  /\ plural' = pl
           /\ df_arg' = df
           /\ IF Len(df.rows) > 0 /\ pl \notin FilmColumns
              THEN /\ Raise("KeyError")
                   /\ UNCHANGED <<home_locals, fig>>
              ELSE LET out == WithHoverText(df, categories, df_films, pl, id_)
                   IN  /\ df_genres' = IF pc = "hist_genre" THEN out ELSE df_genres
                       /\ df_countries' = IF pc = "hist_genre" THEN df_countries
                                          ELSE out
                       /\ fig' = CategoriesFig(out, categories)
                       /\ called' = "create_hist_categories"
                       /\ pc' = NextStep(pc)
                       /\ UNCHANGED <<countries_not_watched, df_actors, df_directors>>
    /\ UNCHANGED <<session_vars, grid_vars, watched, not_watched>>

create_map ==
    /\ pc = "map"
    /\ df_arg' = df_countries
    /\ IF {"country_en", "number", "hover_text"} \subseteq df_countries.columns
       THEN /\ fig' = MapFig(df_countries)
            /\ called' = "create_map"
            /\ pc' = NextStep(pc)
       ELSE /\ Raise("ValueError")
            /\ UNCHANGED fig
    /\ UNCHANGED <<session_vars, home_locals, grid_vars, plural, watched, not_watched>>

create_progression ==
    /\ pc \in ProgressionSteps
    /\ LET args == ProgressionArgs(pc)
           file == AwardFile(args.award)
       IN  IF file \notin DOMAIN csv
           THEN /\ Raise("FileNotFoundError")
                /\ UNCHANGED <<df_arg, watched, not_watched, fig>>
           ELSE /\ df_arg' = csv[file]
                /\ watched' = Watched(csv[file], df_films)
                /\ not_watched' = NotWatched(csv[file], df_films)
                /\ fig' = PieFig(watched', not_watched', args.title)
                /\ called' = "create_progression"
                /\ pc' = NextStep(pc)
    /\ UNCHANGED <<session_vars, home_locals, grid_vars, plural>>

create_progression_countries ==
    /\ pc = "prog_countries"
    /\ df_arg' = df_countries
    /\ watched' = Column(df_countries.rows, "country")
    /\ not_watched' = countries_not_watched
    /\ fig' = PieFig(watched', not_watched', <<"Countries with a watched film">>)
    /\ called' = "create_progression_countries"
    /\ pc' = NextStep(pc)
    /\ UNCHANGED <<session_vars, home_locals, grid_vars, plural>>

----------------------------------------------------------------------------
(* create_persons, create_films *)

ColsPerRow == 3

\* num_people = 3 * cols_per_row
NumPeople == 3 * ColsPerRow

\* create_films(df_films.head(3))
LastFilms == 3

NoButton == <<"", 0>>

NoPerson == [kind |-> "None", id |-> 0, serial |-> 0]

\* Person(id): the serial tells one constructed object from another
NewPerson(id) == [kind |-> "Person", id |-> id, serial |-> constructed[id] + 1]

\* Film(id)
NewFilm(id) == [kind |-> "Film", id |-> id, serial |-> 0]

\* f"person_{id}"
PersonKey(id) == <<"person_">> \o Str(id)

\* not key in st.session_state
KeyAbsentAlways(key) == TRUE

KeyAbsent(key) == key \notin DOMAIN session_state

\* st.session_state[key] = v
Store(state, key, v) == (key :> v) @@ state

\* st.button(...) of the cell being rendered: True in the run its click started
Button == pressed = <<pc, cell>>

\* one cell of create_persons(df_directors) or create_persons(df_actors); past
\* the last cell the routine returns
create_persons ==
    /\ pc \in {"directors", "actors"}
    /\ LET df_persons == IF pc = "directors" THEN df_directors ELSE df_actors
           people == SubSeq(df_persons, 1, Min(NumPeople, Len(df_persons)))
       IN  IF cell < Len(people)
           THEN LET id == people[cell + 1]["id"]
                    key == PersonKey(id)
                    cached == IF KeyAbsent(key)
                              THEN Store(session_state, key, NewPerson(id))
                              ELSE session_state
                IN  /\ constructed' = IF KeyAbsent(key)
                                      THEN [constructed EXCEPT ![id] = @ + 1]
                                      ELSE constructed
                    /\ person' = cached[key]
                    /\ IF Button
                       THEN /\ session_state' = Store(cached, <<"person">>, cached[key])
                            /\ pc' = "switch_actor"
                            /\ cell' = cell
                       ELSE /\ session_state' = cached
                            /\ pc' = pc
                            /\ cell' = cell + 1
           ELSE /\ pc' = NextStep(pc)
                /\ cell' = 0
                /\ UNCHANGED <<session_state, constructed, person>>
    /\ called' = "create_persons"
    /\ UNCHANGED <<csv, df_films, page, pressed, home_locals, df_arg, plural,
                   watched, not_watched, fig>>

\* one cell of create_films(df_films.head(3))
create_films ==
    /\ pc = "films"
    /\ LET films == SubSeq(df_films, 1, Min(LastFilms, Len(df_films)))
       IN  IF cell < Len(films)
           THEN IF Button
                THEN /\ session_state' =
                            Store(session_state, <<"film">>, NewFilm(films[cell + 1]["id"]))
                     /\ pc' = "switch_film"
                     /\ cell' = cell
                ELSE /\ pc' = pc
                     /\ cell' = cell + 1
                     /\ UNCHANGED session_state
           ELSE /\ pc' = NextStep(pc)
                /\ cell' = 0
                /\ UNCHANGED session_state
    /\ called' = "create_films"
    /\ UNCHANGED <<csv, df_films, page, pressed, constructed, home_locals, df_arg,
                   plural, watched, not_watched, fig, person>>

\* st.switch_page("actor_page.py") / st.switch_page("film_page.py"): the run ends
switch_page_swapped ==
    /\ pc \in {"switch_actor", "switch_film"}
    /\ page' = IF pc = "switch_actor" THEN "film_page.py" ELSE "actor_page.py"
    /\ pc' = "left"
    /\ called' = "switch_page"
    /\ UNCHANGED <<csv, df_films, session_state, pressed, constructed, home_locals,
                   grid_vars, df_arg, plural, watched, not_watched, fig>>

switch_page ==
    /\ pc \in {"switch_actor", "switch_film"}
    /\ page' = IF pc = "switch_actor" THEN "actor_page.py" ELSE "film_page.py"
    /\ pc' = "left"
    /\ called' = "switch_page"
    /\ UNCHANGED <<csv, df_films, session_state, pressed, constructed, home_locals,
                   grid_vars, df_arg, plural, watched, not_watched, fig>>

----------------------------------------------------------------------------
(* The visitor: a click on a button of the rendered page reruns the script; *)
(* from a detail page the visitor comes back to the home page.              *)

EmptyTable == [columns |-> {}, rows |-> <<>>]

\* the buttons the finished run rendered
RenderedButtons ==
    {<<"directors", i>> : i \in 0..(Min(NumPeople, Len(df_directors)) - 1)}
    \cup {<<"actors", i>> : i \in 0..(Min(NumPeople, Len(df_actors)) - 1)}
    \cup {<<"films", i>> : i \in 0..(Min(LastFilms, Len(df_films)) - 1)}

FreshRun ==
    /\ pc' = "load"
    /\ cell' = 0
    /\ person' = NoPerson
    /\ df_countries' = EmptyTable
    /\ df_genres' = EmptyTable
    /\ countries_not_watched' = <<>>
    /\ df_actors' = <<>>
    /\ df_directors' = <<>>
    /\ df_arg' = <<>>
    /\ plural' = ""
    /\ watched' = <<>>
    /\ not_watched' = <<>>
    /\ fig' = NoFig
    /\ called' = ""

click ==
    /\ pc = "done"
    /\ \E b \in RenderedButtons : pressed' = b
    /\ FreshRun
    /\ UNCHANGED <<csv, df_films, session_state, page, constructed>>

back_home ==
    /\ pc = "left"
    /\ page' = "home.py"
    /\ pressed' = NoButton
    /\ FreshRun
    /\ UNCHANGED <<csv, df_films, session_state, constructed>>

----------------------------------------------------------------------------
(* The input tables *)

MaxAward == 6       \* rows of an award list

Soudan == <<"S", "o", "u", "d", "a", "n">>
SoudanDuSud == <<"S", "o", "u", "d", "a", "n", " ", "d", "u", " ", "S", "u", "d">>
Sudan == <<"S", "u", "d", "a", "n">>
SouthSudan == <<"S", "o", "u", "t", "h", " ", "S", "u", "d", "a", "n">>
Drame == <<"D", "r", "a", "m", "e">>
Comedie == <<"C", "o", "m", "é", "d", "i", "e">>

FilmTitle == <<"T1", "T2", "T3", "T4", "T5", "T6", "T7", "T8">>
AwardTitle == <<"A1", "A2", "A3", "A4", "A5", "A6", "A7", "A8">>

\* the text of a membership column: the keys of the film, comma separated
RECURSIVE Encode(_)
Encode(keys) ==
    IF Len(keys) = 0 THEN <<>>
    ELSE IF Len(keys) = 1 THEN keys[1]
    ELSE keys[1] \o <<",">> \o Encode(Tail(keys))

\* the keys a membership text encodes
RECURSIVE Decode(_, _)
Decode(text, acc) ==
    IF Len(text) = 0 THEN (IF acc = <<>> THEN {} ELSE {acc})
    ELSE IF text[1] = "," THEN {acc} \cup Decode(Tail(text), <<>>)
    ELSE Decode(Tail(text), Append(acc, text[1]))

\* year, duration, press rating, spectator rating, genre ids, country names
Profile1 == <<1999, 90, NaN, 4, <<1>>, <<Soudan>>>>
Profile2 == <<2001, 120, 3, 4, <<13>>, <<SoudanDuSud>>>>
Profile3 == <<1999, 90, 3, 2, <<1, 13>>, <<Soudan, SoudanDuSud>>>>

FilmRow(i, p) ==
    ("id" :> i) @@ ("title" :> <<FilmTitle[i]>>) @@ ("year" :> p[1])
    @@ ("duration" :> p[2]) @@ ("press rating" :> p[3])
    @@ ("spectator rating" :> p[4]) @@ ("poster" :> <<"poster.jpg">>)
    @@ ("genres" :> Encode([k \in 1..Len(p[5]) |-> Str(p[5][k])]))
    @@ ("countries" :> Encode(p[6]))

FilmTables(profiles) ==
    UNION { { [i \in 1..n |-> FilmRow(i, ps[i])] : ps \in [1..n -> profiles] }
            : n \in 0..MaxFilms }

GenreRow(e, n) ==
    IF e = 1 THEN [genre |-> Drame, id |-> 1, number |-> n]
    ELSE [genre |-> Comedie, id |-> 13, number |-> n]

CountryRow(e, n) ==
    IF e = 1 THEN [country |-> Soudan, country_en |-> Sudan, number |-> n]
    ELSE [country |-> SoudanDuSud, country_en |-> SouthSudan, number |-> n]

\* a catalog: which of the two categories the files list, in which order,
\* with which watched-counts; one category at least has films
Catalogs ==
    { c \in UNION { [1..n -> {1, 2} \X {0, 1, 2}] : n \in 1..2 } :
        /\ \A i, j \in 1..Len(c) : i # j => c[i][1] # c[j][1]
        /\ \E i \in 1..Len(c) : c[i][2] # 0 }

PersonRow(id, n) == [id |-> id, number |-> n]

AwardRow(j, id) == [id |-> id, title |-> <<AwardTitle[j]>>]

\* row j of an award list is film j or a film that is in no films table
AwardTables ==
    UNION { { [j \in 1..m |-> AwardRow(j, IF known[j] THEN j ELSE 100 + j)] :
                known \in [1..m -> BOOLEAN] }
            : m \in 0..MaxAward }

Files(catalog, directors, actors, cesars) ==
    [countries |-> [i \in 1..Len(catalog) |-> CountryRow(catalog[i][1], catalog[i][2])],
     genres    |-> [i \in 1..Len(catalog) |-> GenreRow(catalog[i][1], catalog[i][2])],
     directors |-> directors,
     actors    |-> actors,
     cesars    |-> cesars,
     oscars    |-> <<AwardRow(1, 1), AwardRow(2, 102)>>,
     palmes    |-> <<>>]

DefaultCatalog == <<<<1, 2>>, <<2, 0>>>>
DefaultDirectors == <<PersonRow(1, 2)>>
DefaultActors == <<PersonRow(3, 1)>>
DefaultAwards == <<AwardRow(1, 1), AwardRow(2, 102)>>

PersonIds == {1, 2, 3}

\* the start of a session: the first run of create_home, no button clicked
InitSession ==
    /\ page = "home.py"
    /\ pressed = NoButton
    /\ session_state = <<>>
    /\ constructed = [id \in PersonIds |-> 0]
    /\ pc = "load"
    /\ cell = 0
    /\ person = NoPerson
    /\ df_countries = EmptyTable
    /\ df_genres = EmptyTable
    /\ countries_not_watched = <<>>
    /\ df_actors = <<>>
    /\ df_directors = <<>>
    /\ df_arg = <<>>
    /\ plural = ""
    /\ watched = <<>>
    /\ not_watched = <<>>
    /\ fig = NoFig
    /\ called = ""

\* films of every numeric profile, the other inputs fixed
InitNumbers ==
    /\ df_films \in FilmTables({Profile1, Profile2, Profile3})
    /\ csv = Files(DefaultCatalog, DefaultDirectors, DefaultActors, DefaultAwards)

\* every catalog, films of one category each
InitCategories ==
    /\ df_films \in FilmTables({Profile1, Profile2})
    /\ \E c \in Catalogs :
          csv = Files(c, DefaultDirectors, DefaultActors, DefaultAwards)

\* every award list, against no film and against MaxFilms films
InitAwards ==
    /\ df_films \in { <<>>, [i \in 1..MaxFilms |-> FilmRow(i, Profile2)] }
    /\ \E t \in AwardTables :
          csv = Files(DefaultCatalog, DefaultDirectors, DefaultActors, t)

Init ==
    /\ InitSession
    /\ InitNumbers \/ InitCategories \/ InitAwards

\* the first page load of a session
Next ==
    \/ create_home_load
    \/ create_hist_numbers
    \/ create_hist_categories
    \/ create_map
    \/ create_progression
    \/ create_progression_countries
    \/ create_scatter_ratings
    \/ create_persons
    \/ create_films

Spec == Init /\ [][Next]_vars

\* a visit: page loads, clicks, navigation and returns
InitVisit ==
    /\ InitSession
    /\ df_films \in { [i \in 1..n |-> FilmRow(i, Profile2)] : n \in {0, 1, MaxFilms} }
    /\ \E d \in { <<>>, <<PersonRow(1, 2)>>, <<PersonRow(2, 1), PersonRow(1, 2)>> },
          a \in { <<>>, <<PersonRow(3, 1)>> } :
          csv = Files(DefaultCatalog, d, a, DefaultAwards)

NextVisit ==
    \/ Next
    \/ switch_page
    \/ click
    \/ back_home

SpecVisit == InitVisit /\ [][NextVisit]_vars

----------------------------------------------------------------------------
(* Properties *)

RECURSIVE SumNumbers(_)
SumNumbers(data) ==
    IF Len(data) = 0 THEN 0 ELSE data[1]["number"] + SumNumbers(Tail(data))

Range(s) == {s[i] : i \in 1..Len(s)}

\* the key columns of the grouping the last chart routine made
GroupingColumns ==
    IF called = "create_hist_numbers" THEN {fig.x}
    ELSE {"press rating", "spectator rating"}

Grouped == called \in {"create_hist_numbers", "create_scatter_ratings"}

\* C1, as stated: after create_hist_numbers and after create_scatter_ratings
\* the 'number' counts of the groups add up to the number of rows of the
\* input table, also when the press rating of some rows is absent.
C1_CountsSumToRows ==
    Grouped => SumNumbers(fig.data) = Len(df_arg)

\* C1, amended: the 'number' counts of the groups add up to the number of
\* input rows that have a value in every grouping column; the rows with an
\* absent grouping value are in no group.
C1_CountsSumToPresentRows ==
    Grouped =>
        SumNumbers(fig.data) =
            Cardinality({i \in 1..Len(df_arg) :
                            \A c \in GroupingColumns : df_arg[i][c] # NaN})

\* C1: the scatter of a table with films of both kinds, some without press
\* rating, has been built and its counts fall short of the number of rows.
C1_Witness ==
    /\ called = "create_scatter_ratings"
    /\ \E i \in 1..Len(df_arg) : df_arg[i]["press rating"] = NaN
    /\ Len(fig.data) >= 2
    /\ SumNumbers(fig.data) < Len(df_arg)

\* C8: create_hist_numbers yields exactly one group per distinct value of
\* the chosen column (an absent entry is no value), the count of a group is
\* the number of input rows with exactly that value, and the durations
\* [90, 120, 90] give the groups 90 with count 2 and 120 with count 1.
C8_OneGroupPerValue ==
    called = "create_hist_numbers" =>
        LET col == fig.x
            vals == {df_arg[i][col] : i \in 1..Len(df_arg)} \ {NaN}
        IN  /\ \A v \in vals :
                  Cardinality({g \in 1..Len(fig.data) : fig.data[g][col] = v}) = 1
            /\ \A g \in 1..Len(fig.data) :
                  /\ fig.data[g][col] \in vals
                  /\ fig.data[g]["number"] =
                        Cardinality({i \in 1..Len(df_arg) :
                                        df_arg[i][col] = fig.data[g][col]})
            /\ (col = "duration" /\ Column(df_arg, "duration") = <<90, 120, 90>>)
                  => [g \in 1..Len(fig.data) |->
                         <<fig.data[g]["duration"], fig.data[g]["number"]>>]
                     = <<<<90, 2>>, <<120, 1>>>>

\* C8: the duration histogram of the films of durations [90, 120, 90] is built.
C8_Witness ==
    /\ called = "create_hist_numbers"
    /\ fig.x = "duration"
    /\ Column(df_arg, "duration") = <<90, 120, 90>>
    /\ Len(fig.data) = 2

TitleTokens == Range(FilmTitle) \cup Range(AwardTitle)

\* the titles a hover text lists, in order
Listed(hover) == SelectSeq(hover, LAMBDA t : t \in TitleTokens)

\* the first five of a list of titles, as the sequence of their tokens
FirstFive(titles) ==
    [i \in 1..(IF Len(titles) < 5 THEN Len(titles) ELSE 5) |-> titles[i][1]]

\* the titles of the rows of a table that satisfy Test, in table order
TitlesWhere(rows, Test(_)) ==
    LET RECURSIVE Sel(_)
        Sel(i) == IF i > Len(rows) THEN <<>>
                  ELSE (IF Test(rows[i]) THEN <<rows[i]["title"]>> ELSE <<>>)
                       \o Sel(i + 1)
    IN  Sel(1)

C2_EmptySliceIsNone ==
    called = "create_progression" =>
        /\ (watched = <<>> => fig.data[1].hover_text = <<"None">>)
        /\ (not_watched = <<>> => fig.data[2].hover_text = <<"None">>)

\* the singular category word of the last create_hist_categories call
HistCategoriesCalled == called \in {"create_hist_categories", "KeyError"}

\* C3, as stated: the plural heuristic of create_hist_categories maps
\* "genre" to "genres" and "country" to "countrys".
C3_CountryToCountrys ==
    HistCategoriesCalled =>
        /\ ("genre" \in df_arg.columns => plural = "genres")
        /\ ("country" \in df_arg.columns => plural = "countrys")

\* C3, amended: the plural heuristic of create_hist_categories maps "genre"
\* to "genres" and "country" to "countries".
C3_CountryToCountries ==
    HistCategoriesCalled =>
        /\ ("genre" \in df_arg.columns => plural = "genres")
        /\ ("country" \in df_arg.columns => plural = "countries")

\* C3: create_hist_categories has been called for the countries.
C3_Witness ==
    /\ called = "create_hist_categories"
    /\ "country" \in df_arg.columns
    /\ Len(df_arg.rows) > 0
    /\ plural = "countries"

\* C4: create_progression puts every row of the award list in exactly one
\* of watched and not_watched, in watched iff its id occurs in the id column
\* of the films table; the two lists are disjoint and their lengths add up
\* to the number of rows of the award list.
C4_Partition ==
    called = "create_progression" =>
        /\ \A j \in 1..Len(df_arg) :
              /\ (df_arg[j]["title"] \in Range(watched))
                    # (df_arg[j]["title"] \in Range(not_watched))
              /\ (df_arg[j]["title"] \in Range(watched))
                    <=> (\E i \in 1..Len(df_films) :
                            df_films[i]["id"] = df_arg[j]["id"])
        /\ Range(watched) \cap Range(not_watched) = {}
        /\ Len(watched) + Len(not_watched) = Len(df_arg)

\* C4: an award list with watched and not watched films has been split.
C4_Witness ==
    /\ called = "create_progression"
    /\ Len(watched) >= 2
    /\ Len(not_watched) >= 2

\* C10: every title the hover text of a category row lists belongs to a
\* film that is a member of the category: the key of the row (id or label)
\* is one of the keys the film's membership column encodes.
C10_ListedFilmsAreMembers ==
    called = "create_hist_categories" =>
        \A g \in 1..Len(fig.data) :
            \A i \in 1..Len(df_films) :
                df_films[i]["title"][1] \in Range(Listed(fig.data[g]["hover_text"]))
                => (IF fig.x = "genre" THEN Str(fig.data[g]["id"])
                    ELSE fig.data[g]["country"])
                   \in Decode(df_films[i][plural], <<>>)

\* the positions of create_home at which a chart routine is called
ChartSteps == HistSteps \cup ProgressionSteps
              \cup {"hist_genre", "hist_country", "map", "prog_countries", "scatter"}

NoTableMutatedStep ==
    pc \in ChartSteps =>
          /\ df_films' = df_films
          /\ df_genres' = df_genres
          /\ df_countries' = df_countries
          /\ countries_not_watched' = countries_not_watched
          /\ csv' = csv

\* C6, as stated: no chart routine mutates a table it is given: when it
\* returns, every table has the columns and the rows it had before the call.
C6_NoTableMutated == [][NoTableMutatedStep]_vars

\* new is old with the column hover_text set: the same rows in the same
\* order, every other column unchanged
SameButHoverText(new, old) ==
    /\ new.columns = old.columns \cup {"hover_text"}
    /\ Len(new.rows) = Len(old.rows)
    /\ \A r \in 1..Len(old.rows) :
          \A c \in old.columns \ {"hover_text"} : new.rows[r][c] = old.rows[r][c]

OnlyHoverTextAddedStep ==
    pc \in ChartSteps =>
          /\ df_films' = df_films
          /\ countries_not_watched' = countries_not_watched
          /\ csv' = csv
          /\ IF pc = "hist_genre"
             THEN SameButHoverText(df_genres', df_genres)
             ELSE df_genres' = df_genres
          /\ IF pc = "hist_country"
             THEN SameButHoverText(df_countries', df_countries)
             ELSE df_countries' = df_countries

\* C6, amended: create_hist_numbers, create_map, create_progression,
\* create_progression_countries and create_scatter_ratings leave every table
\* as it was; create_hist_categories sets the column hover_text of the
\* category table it is given (adding it when absent) and changes neither
\* the rows, their order and their other columns, nor any other table.
C6_OnlyHoverTextAdded == [][OnlyHoverTextAddedStep]_vars

\* C6: create_hist_categories has returned and the countries table it was
\* given, which had no column hover_text, has one.
C6_Witness ==
    /\ called = "create_hist_categories"
    /\ pc = "map"
    /\ Len(df_countries.rows) > 0
    /\ "hover_text" \notin df_arg.columns
    /\ "hover_text" \in df_countries.columns

\* C5: within a session Person(id) is constructed at most once for an
\* identifier: only when the key person_<id> is absent from the session
\* state; the object is stored under that key, and every render of the
\* identifier uses the stored object.
C5_PersonConstructedOnce ==
    /\ \A id \in PersonIds :
          /\ constructed[id] <= 1
          /\ (PersonKey(id) \in DOMAIN session_state) <=> (constructed[id] = 1)
          /\ PersonKey(id) \in DOMAIN session_state =>
                session_state[PersonKey(id)] =
                    [kind |-> "Person", id |-> id, serial |-> 1]
    /\ person # NoPerson => person = session_state[PersonKey(person.id)]

\* C5: in a run after the first one of the session, create_persons has
\* rendered a person from the object an earlier run constructed.
C5_Witness ==
    /\ pressed # NoButton
    /\ called = "create_persons"
    /\ person # NoPerson
    /\ constructed[person.id] = 1

\* the entities stored under "person" and "film"
Selected ==
    [k \in {<<"person">>, <<"film">>} \cap DOMAIN session_state |-> session_state[k]]

\* the identifier of the row of the cell whose button was clicked
PressedId ==
    IF pressed[1] = "directors" THEN df_directors[pressed[2] + 1]["id"]
    ELSE IF pressed[1] = "actors" THEN df_actors[pressed[2] + 1]["id"]
    ELSE df_films[pressed[2] + 1]["id"]

StoreThenNavigateStep ==
    /\ ((pressed = NoButton /\ page = "home.py") =>
            (Selected' = Selected /\ page' = "home.py"))
    /\ ((page = "home.py" /\ Selected' # Selected) =>
            (/\ pressed = <<pc, cell>>
             /\ page' = "home.py"
             /\ pc' \in {"switch_actor", "switch_film"}))
    /\ ((page = "home.py" /\ page' # "home.py") =>
            (IF pressed[1] \in {"directors", "actors"}
             THEN /\ page' = "actor_page.py"
                  /\ <<"person">> \in DOMAIN session_state
                  /\ session_state[<<"person">>] = session_state[PersonKey(PressedId)]
                  /\ session_state[<<"person">>].kind = "Person"
                  /\ session_state[<<"person">>].id = PressedId
                  /\ session_state' = session_state
             ELSE /\ pressed[1] = "films"
                  /\ page' = "film_page.py"
                  /\ <<"film">> \in DOMAIN session_state
                  /\ session_state[<<"film">>].kind = "Film"
                  /\ session_state[<<"film">>].id = PressedId
                  /\ session_state' = session_state))

\* C9: when the button of a cell of create_persons or create_films is
\* pressed, the entity of the cell (its Person, a Film of the row's id) is
\* stored under "person" or "film" before the navigation, which goes to the
\* detail page of that kind of entity; in a run without a pressed button
\* neither key is written and the page is not left.
C9_StoreThenNavigate == [][StoreThenNavigateStep]_vars

\* C9: the button of a person was pressed, the person stored and the person
\* page reached.
C9_Witness ==
    /\ page = "actor_page.py"
    /\ pressed[1] = "directors"
    /\ session_state[<<"person">>].id = PressedId

====
